---- MODULE Spec2Model ----
(***************************************************************************)
(* A model of validator/app.py: the response-validity scorer               *)
(* (get_question_data, parse_and_classify, validate_response, the /validate *)
(* /validate_new and /train handlers).                                      *)
(*                                                                          *)
(* Python values are dynamically typed, so every value whose type the code  *)
(* tests or mixes (parameters, weights, uids, has_numeric) is a tagged      *)
(* record [t, v].  Floats are kept exactly, in tenths: 2.2 is PyFloat(22).    *)
(* Text is a sequence of one-character strings; a response is tokenised     *)
(* per character.                                                           *)
(***************************************************************************)
EXTENDS Integers, Sequences, FiniteSets, TLC

VARIABLES
    \* process-wide state, set when the module is imported (lines 30-79)
    DEFAULTS, PARSER_FEATURE_DICT, PARSER_FEATURE_INTERCEPT,
    df_questions, df_innovation, df_domain, bad_vocab, common_vocab,
    \* one parse_and_classify scoring loop in progress (lines 157-190)
    cls,
    \* the request each worker thread is handling, and where it is
    req

globals == <<DEFAULTS, PARSER_FEATURE_DICT, PARSER_FEATURE_INTERCEPT,
             df_questions, df_innovation, df_domain, bad_vocab, common_vocab>>
vars == <<globals, cls, req>>

-----------------------------------------------------------------------------
(* Python values *)

None == [t |-> "none", v |-> "None"]
PyStr(s) == [t |-> "str", v |-> s]
PyBool(b) == [t |-> "bool", v |-> b]
PyInt(n) == [t |-> "int", v |-> n]
PyFloat(tenths) == [t |-> "float", v |-> tenths]

\* bool(x)
Truthy(x) ==
    CASE x.t = "none" -> FALSE
      [] x.t = "bool" -> x.v
      [] x.t = "int" -> x.v # 0
      [] x.t = "float" -> x.v # 0
      [] x.t = "str" -> x.v # ""

\* a == b (True == 1 and 2 == 2.0 in Python)
IsNum(x) == x.t \in {"bool", "int", "float"}
Tenths(x) ==
    CASE x.t = "bool" -> IF x.v THEN 10 ELSE 0
      [] x.t = "int" -> 10 * x.v
      [] x.t = "float" -> x.v
PyEq(a, b) ==
    IF IsNum(a) /\ IsNum(b) THEN Tenths(a) = Tenths(b)
    ELSE a.t = b.t /\ a.v = b.v

\* a or b, a and b
PyOr(a, b) == IF Truthy(a) THEN a ELSE b
PyAnd(a, b) == IF Truthy(a) THEN b ELSE a

-----------------------------------------------------------------------------
(* The state after import *)

\* the feature categories, in the order PARSER_FEATURE_DICT declares them
Keys == <<"stem_word_count", "option_word_count", "innovation_word_count",
          "domain_word_count", "bad_word_count", "common_word_count">>
KeySet == {Keys[i] : i \in 1..Len(Keys)}

ParamKeys == <<"remove_stopwords", "tag_numeric", "spelling_correction",
               "remove_nonwords", "spell_correction_max">>
ParamSet == {ParamKeys[i] : i \in 1..Len(ParamKeys)}

InitDefaults ==
    [remove_stopwords |-> PyBool(TRUE),
     tag_numeric |-> PyStr("auto"),
     spelling_correction |-> PyStr("auto"),
     remove_nonwords |-> PyBool(TRUE),
     spell_correction_max |-> PyInt(10)]

InitFeatureDict ==
    [stem_word_count |-> PyInt(0),
     option_word_count |-> PyInt(0),
     innovation_word_count |-> PyFloat(22),
     domain_word_count |-> PyFloat(25),
     bad_word_count |-> PyInt(-3),
     common_word_count |-> PyFloat(7)]

InitIntercept == 0

\* the question table: two variants of question "a" (the first numeric, in
\* module m1; the second not, in m2) and one of question "b"
InitQuestions ==
    << [uid |-> <<"a", "@", "1">>, qid |-> <<"a">>, module_id |-> "m1",
        contains_number |-> TRUE, stem_words |-> {"s", "d"}, mc_words |-> {"s", "o"}],
       [uid |-> <<"a", "@", "2">>, qid |-> <<"a">>, module_id |-> "m2",
        contains_number |-> FALSE, stem_words |-> {"s"}, mc_words |-> {"o"}],
       [uid |-> <<"b", "@", "1">>, qid |-> <<"b">>, module_id |-> "m1",
        contains_number |-> FALSE, stem_words |-> {}, mc_words |-> {"o", "b"}] >>

InitInnovation ==
    << [module_id |-> "m1", innovation_words |-> {"i", "d"}, subject_name |-> "bio"],
       [module_id |-> "m2", innovation_words |-> {"i"}, subject_name |-> "phys"] >>

InitDomain ==
    << [book |-> "bio", domain_words |-> {"d", "b"}],
       [book |-> "phys", domain_words |-> {"d"}] >>

InitBadVocab == {"b"}

\* parser.all_words | parser.reserved_tags; "N" is the numeric tag
InitCommonVocab == {"s", "o", "d", "b", "c", "t", "N"}

InitGlobals ==
    /\ DEFAULTS = InitDefaults
    /\ PARSER_FEATURE_DICT = InitFeatureDict
    /\ PARSER_FEATURE_INTERCEPT = InitIntercept
    /\ df_questions = InitQuestions
    /\ df_innovation = InitInnovation
    /\ df_domain = InitDomain
    /\ bad_vocab = InitBadVocab
    /\ common_vocab = InitCommonVocab

uid_set == {df_questions[i].uid : i \in 1..Len(df_questions)}
qid_set == {df_questions[i].qid : i \in 1..Len(df_questions)}

-----------------------------------------------------------------------------
(* get_question_data *)

\* df[df[key] == val].iloc[0]
Iloc0(df, key, val) ==
    LET hits == {i \in 1..Len(df) : df[i][key] = val}
    IN  df[CHOOSE i \in hits : \A j \in hits : i <= j]

get_question_data_by_key(key, val) ==
    LET first_q == Iloc0(df_questions, key, val)
        inno == Iloc0(df_innovation, "module_id", first_q.module_id)
        dom == Iloc0(df_domain, "book", inno.subject_name)
    IN  [vocab_dict |->
            [stem_word_count |-> first_q.stem_words,
             option_word_count |-> first_q.mc_words,
             innovation_word_count |-> inno.innovation_words,
             domain_word_count |-> dom.domain_words,
             bad_word_count |-> bad_vocab,
             common_word_count |-> common_vocab],
         uid |-> PyStr(first_q.uid),
         has_numeric |-> PyBool(first_q.contains_number)]

\* uid.split("@")[0]
Split0(s) ==
    LET ats == {i \in 1..Len(s) : s[i] = "@"}
    IN  IF ats = {} THEN s
        ELSE SubSeq(s, 1, (CHOOSE i \in ats : \A j \in ats : i <= j) - 1)

default_vocab_dict ==
    [stem_word_count |-> {},
     option_word_count |-> {},
     innovation_word_count |-> {},
     domain_word_count |-> {},
     bad_word_count |-> bad_vocab,
     common_word_count |-> common_vocab]

\* the two lookups in the other order
get_question_data_qid_first(uid) ==
    IF uid.t # "none" /\ Split0(uid.v) \in qid_set
    THEN get_question_data_by_key("qid", Split0(uid.v))
    ELSE IF uid.t # "none" /\ uid.v \in uid_set
    THEN get_question_data_by_key("uid", uid.v)
    ELSE [vocab_dict |-> default_vocab_dict, uid |-> None, has_numeric |-> None]

get_question_data(uid) ==
    IF uid.t # "none" /\ uid.v \in uid_set
    THEN get_question_data_by_key("uid", uid.v)
    ELSE IF uid.t # "none" /\ Split0(uid.v) \in qid_set
    THEN get_question_data_by_key("qid", Split0(uid.v))
    ELSE [vocab_dict |-> default_vocab_dict, uid |-> None, has_numeric |-> None]

-----------------------------------------------------------------------------
(* The normalizer, parser.process_string_spelling_limit: validator/ml is    *)
(* not part of the sources at hand, so this follows its contract            *)
(*   normalize(text, removeStopwords, tagNumeric, correctSpelling,          *)
(*             removeNonwords, spellCorrectionMax) -> (tokens, corrections) *)
(* on a small lexicon.  Flags are used by their truth value, as Python's    *)
(* "if flag:" does.                                                         *)

Stopwords == {"t"}
Digits == {"2", "4"}
Operators == {"+", "="}
\* a misspelling and the word the corrector turns it into
Misspelled == {"x"}
Corrected(tok) == "d"
NumericTag == "N"

RECURSIVE Normalize(_, _, _, _, _, _, _, _, _)
Normalize(text, i, out, n, remove_stopwords, tag_numeric, correct_spelling, kill_nonwords, spell_correction_max) ==
    IF i > Len(text) THEN [words |-> out, num_spelling_corrections |-> n]
    ELSE
      LET tok == text[i]
          go(o, m) == Normalize(text, i + 1, o, m, remove_stopwords, tag_numeric,
                                correct_spelling, kill_nonwords, spell_correction_max)
          nonword == IF Truthy(kill_nonwords) THEN go(out, n) ELSE go(Append(out, tok), n)
      IN  IF tok \in Stopwords
          THEN IF Truthy(remove_stopwords) THEN go(out, n) ELSE go(Append(out, tok), n)
          ELSE IF tok \in Digits
          THEN IF Truthy(tag_numeric) THEN go(Append(out, NumericTag), n) ELSE nonword
          ELSE IF tok \in Misspelled
          THEN IF Truthy(correct_spelling) /\ 10 * n < Tenths(spell_correction_max)
               THEN go(Append(out, Corrected(tok)), n + 1)
               ELSE nonword
          ELSE IF tok \in Operators THEN nonword
          ELSE go(Append(out, tok), n)

process_string_spelling_limit(response, remove_stopwords, tag_numeric, correct_spelling, kill_nonwords, spell_correction_max) ==
    Normalize(response, 1, <<>>, 0, remove_stopwords, tag_numeric, correct_spelling,
              kill_nonwords, spell_correction_max)

-----------------------------------------------------------------------------
(* parse_and_classify *)

\* lines 159-163
ZeroCounts == [k \in KeySet |-> 0]

\* lines 165-169, the inner loop from position k on: the position of the key
\* that counts the word, 0 when the loop ends without a break
RECURSIVE MatchKeyNoWeightTest(_, _, _, _)
MatchKeyNoWeightTest(word, feature_weight_dict, feature_vocab_dict, k) ==
    IF k > Len(Keys) THEN 0
    ELSE IF word \in feature_vocab_dict[Keys[k]] THEN k
    ELSE MatchKeyNoWeightTest(word, feature_weight_dict, feature_vocab_dict, k + 1)

RECURSIVE MatchKey(_, _, _, _)
MatchKey(word, feature_weight_dict, feature_vocab_dict, k) ==
    IF k > Len(Keys) THEN 0
    ELSE IF Truthy(feature_weight_dict[Keys[k]]) /\ word \in feature_vocab_dict[Keys[k]]
         THEN k
         ELSE MatchKey(word, feature_weight_dict, feature_vocab_dict, k + 1)

\* the loop body without its break: every matching key counts the word
CountWordNoBreak(counts, word, feature_weight_dict, feature_vocab_dict) ==
    [key \in KeySet |->
        IF Truthy(feature_weight_dict[key]) /\ word \in feature_vocab_dict[key]
        THEN counts[key] + 1 ELSE counts[key]]

\* lines 164-169, one iteration of the outer loop
CountWord(counts, word, feature_weight_dict, feature_vocab_dict) ==
    LET k == MatchKey(word, feature_weight_dict, feature_vocab_dict, 1)
    IN  IF k = 0 THEN counts ELSE [counts EXCEPT ![Keys[k]] = @ + 1]

RECURSIVE CountWords(_, _, _, _, _)
CountWords(counts, response_words, i, feature_weight_dict, feature_vocab_dict) ==
    IF i > Len(response_words) THEN counts
    ELSE CountWords(CountWord(counts, response_words[i], feature_weight_dict,
                              feature_vocab_dict),
                    response_words, i + 1, feature_weight_dict, feature_vocab_dict)

\* line 175, in tenths: sum([v * w for v, w in zip(vector, WEIGHTS)]) + intercept
RECURSIVE WeightedSum(_, _, _)
WeightedSum(counts, feature_weight_dict, k) ==
    IF k > Len(Keys) THEN 0
    ELSE counts[Keys[k]] * Tenths(feature_weight_dict[Keys[k]])
         + WeightedSum(counts, feature_weight_dict, k + 1)

InnerProduct(counts, feature_weight_dict) ==
    WeightedSum(counts, feature_weight_dict, 1) + 10 * PARSER_FEATURE_INTERCEPT

\* line 176
IsValidNonStrict(inner_product) == inner_product >= 0

IsValid(inner_product) == inner_product > 0

\* lines 172-190
ReturnDict(response, counts, feature_weight_dict, remove_stopwords, tag_numeric, spelling_correction, remove_nonwords, parsed) ==
    [response |-> response,
     remove_stopwords |-> remove_stopwords,
     tag_numeric |-> tag_numeric,
     spelling_correction_used |-> spelling_correction,
     num_spelling_correction |-> parsed.num_spelling_corrections,
     remove_nonwords |-> remove_nonwords,
     processed_response |-> parsed.words,
     counts |-> counts,
     inner_product |-> InnerProduct(counts, feature_weight_dict),
     valid |-> IsValid(InnerProduct(counts, feature_weight_dict))]

parse_and_classify(response, feature_weight_dict, feature_vocab_dict, remove_stopwords, tag_numeric, spelling_correction, remove_nonwords, spell_correction_limit) ==
    LET parsed == process_string_spelling_limit(response, remove_stopwords, tag_numeric,
                      spelling_correction, remove_nonwords, spell_correction_limit)
        counts == CountWords(ZeroCounts, parsed.words, 1, feature_weight_dict,
                             feature_vocab_dict)
    IN  ReturnDict(response, counts, feature_weight_dict, remove_stopwords, tag_numeric,
                   spelling_correction, remove_nonwords, parsed)

-----------------------------------------------------------------------------
(* validate_response *)

\* line 211: tag_numeric or ((tag_numeric == "auto") and has_numeric)
ResolveTagNumeric(tag_numeric, has_numeric) ==
    PyOr(tag_numeric, PyAnd(PyBool(PyEq(tag_numeric, PyStr("auto"))), has_numeric))

\* lines 213-235: the correction setting of the first parse_and_classify call
FirstSetting(spelling_correction) ==
    IF ~PyEq(spelling_correction, PyStr("auto")) THEN spelling_correction ELSE PyBool(FALSE)

\* lines 224, 238: whether the second call is made
NeedsRetryAlways(spelling_correction, return_dictionary) ==
    PyEq(spelling_correction, PyStr("auto"))

NeedsRetryNever(spelling_correction, return_dictionary) == FALSE

NeedsRetry(spelling_correction, return_dictionary) ==
    PyEq(spelling_correction, PyStr("auto")) /\ ~return_dictionary.valid

\* lines 250-253
Attach(return_dictionary, tag_numeric_input, spelling_correction, uid_used) ==
    return_dictionary @@
    [tag_numeric_input |-> tag_numeric_input,
     spelling_correction |-> spelling_correction,
     uid_used |-> uid_used,
     uid_found |-> uid_used.t # "none" /\ uid_used.v \in uid_set]

validate_response(response, uid, feature_weight_dict, params) ==
    LET q == get_question_data(uid)
        tag_numeric == ResolveTagNumeric(params.tag_numeric, q.has_numeric)
        pass(setting) ==
            parse_and_classify(response, feature_weight_dict, q.vocab_dict,
                               params.remove_stopwords, tag_numeric, setting,
                               params.remove_nonwords, params.spell_correction_max)
        first == pass(FirstSetting(params.spelling_correction))
        last == IF NeedsRetry(params.spelling_correction, first)
                THEN pass(PyBool(TRUE)) ELSE first
    IN  Attach(last, params.tag_numeric, params.spelling_correction, q.uid)

-----------------------------------------------------------------------------
(* make_tristate and the request arguments *)

\* the strings int() accepts, and those only float() accepts (in tenths)
IntLiterals == [x \in {"0", "1", "-3"} |-> CASE x = "0" -> 0 [] x = "1" -> 1 [] x = "-3" -> -3]
FloatLiterals == [x \in {"2.5"} |-> 25]

make_tristate(var, default) ==
    IF default.t = "int" /\ var.t = "int" THEN var
    ELSE IF default.t = "int" /\ var.t = "str" /\ var.v \in DOMAIN IntLiterals
    THEN PyInt(IntLiterals[var.v])
    ELSE IF default.t = "int" /\ var.t = "str" /\ var.v \in DOMAIN FloatLiterals
    THEN PyFloat(FloatLiterals[var.v])
    ELSE IF PyEq(var, PyStr("auto")) \/ var.t = "bool" THEN var
    ELSE IF var.t = "str" /\ var.v \in {"False", "false", "f", "0", "None", ""}
    THEN PyBool(FALSE)
    ELSE IF var.t = "str" /\ var.v \in {"True", "true", "t", "1"} THEN PyBool(TRUE)
    ELSE default

\* args.get(key, val): an argument the request does not carry is None here
ArgsGet(args, key, val) == IF args[key].t = "none" THEN val ELSE args[key]

\* lines 300-307, 316-320, 345-352, 379-385
update_parameter_dictionary(args, defaults) ==
    [key \in DOMAIN defaults |-> make_tristate(ArgsGet(args, key, defaults[key]), defaults[key])]

\* lines 362-363: re.compile('[\+\-\*\=\/\d]').search(response) is not None
MathChars == {"+", "-", "*", "=", "/", "0", "1", "2", "3", "4", "5", "6", "7", "8", "9"}
resp_has_math(response) == \E i \in 1..Len(response) : response[i] \in MathChars

\* line 364
MathOverrideReplaces(valid, has_numeric, has_math) == Truthy(has_numeric) /\ has_math

MathOverride(valid, has_numeric, has_math) == valid \/ (Truthy(has_numeric) /\ has_math)

-----------------------------------------------------------------------------
(* The request handlers.  Each worker thread takes a request, runs its       *)
(* handler step by step and replies; threads interleave freely.              *)

Threads == {1, 2}

NoDict == [valid |-> FALSE]

\* A worker's record holds the request (handler, response, uid, args,
\* response_df), the locals of the handler and of validate_response, and the
\* reply.  calls is the history of the parse_and_classify calls made for the
\* request: the correct_spelling and tag_numeric handed over and the return_dict
\* that came back.  computation_time (lines 309-312) is left out of the reply.

Idle ==
    [pc |-> "idle", handler |-> "", response |-> <<>>, uid |-> None, args |-> <<>>,
     response_df |-> <<>>, feature_weight_dict |-> <<>>, parser_params |-> <<>>,
     vocab_dict |-> <<>>, uid_used |-> None, has_numeric |-> None,
     tag_numeric_input |-> None, tag_numeric |-> None, return_dictionary |-> NoDict,
     calls |-> <<>>, output_df |-> <<>>, result |-> NoDict]

\* lines 293-307 (343-352) and, in validate_response, lines 207-211
Entry(t, r) ==
    /\ req[t].pc = "idle"
    /\ r.handler \in {"validate", "validate_new"}
    /\ LET parser_params == update_parameter_dictionary(r.args, DEFAULTS)
           q == get_question_data(r.uid)
       IN  req' = [req EXCEPT ![t] =
                [Idle EXCEPT
                   !.pc = "first",
                   !.handler = r.handler,
                   !.response = r.response,
                   !.uid = r.uid,
                   !.args = r.args,
                   !.parser_params = parser_params,
                   !.feature_weight_dict =
                       update_parameter_dictionary(r.args, PARSER_FEATURE_DICT),
                   !.vocab_dict = q.vocab_dict,
                   !.uid_used = q.uid,
                   !.has_numeric = q.has_numeric,
                   !.tag_numeric_input = parser_params.tag_numeric,
                   !.tag_numeric =
                       ResolveTagNumeric(parser_params.tag_numeric, q.has_numeric)]]
    /\ UNCHANGED <<globals, cls>>

\* one parse_and_classify call of validate_response, with the given setting
Pass(t, setting) ==
    parse_and_classify(req[t].response, req[t].feature_weight_dict, req[t].vocab_dict,
                       req[t].parser_params.remove_stopwords, req[t].tag_numeric, setting,
                       req[t].parser_params.remove_nonwords,
                       req[t].parser_params.spell_correction_max)

\* lines 213-235
FirstPass(t) ==
    /\ req[t].pc = "first"
    /\ LET setting == FirstSetting(req[t].parser_params.spelling_correction)
           rd == Pass(t, setting)
       IN  req' = [req EXCEPT
                ![t].return_dictionary = rd,
                ![t].calls = Append(@, [correct_spelling |-> setting,
                                        tag_numeric |-> req[t].tag_numeric,
                                        result |-> rd]),
                ![t].pc = IF NeedsRetry(req[t].parser_params.spelling_correction, rd)
                          THEN "second" ELSE "attach"]
    /\ UNCHANGED <<globals, cls>>

\* lines 238-248
SecondPass(t) ==
    /\ req[t].pc = "second"
    /\ LET rd == Pass(t, PyBool(TRUE))
       IN  req' = [req EXCEPT
                ![t].return_dictionary = rd,
                ![t].calls = Append(@, [correct_spelling |-> PyBool(TRUE),
                                        tag_numeric |-> req[t].tag_numeric,
                                        result |-> rd]),
                ![t].pc = "attach"]
    /\ UNCHANGED <<globals, cls>>

\* lines 250-255 and 312-314: /validate
Finish(t) ==
    /\ req[t].pc = "attach"
    /\ req[t].handler = "validate"
    /\ req' = [req EXCEPT
                ![t].result = Attach(req[t].return_dictionary, req[t].tag_numeric_input,
                                     req[t].parser_params.spelling_correction,
                                     req[t].uid_used),
                ![t].pc = "done"]
    /\ UNCHANGED <<globals, cls>>

\* lines 250-255 and 357-367: /validate_new, with the lazy math check
FinishNew(t) ==
    /\ req[t].pc = "attach"
    /\ req[t].handler = "validate_new"
    /\ LET rd == Attach(req[t].return_dictionary, req[t].tag_numeric_input,
                        req[t].parser_params.spelling_correction, req[t].uid_used)
           q == get_question_data(rd.uid_used)
           new_output == MathOverride(rd.valid, q.has_numeric, resp_has_math(req[t].response))
       IN  req' = [req EXCEPT
                ![t].result = [rd EXCEPT !.valid = new_output],
                ![t].pc = "done"]
    /\ UNCHANGED <<globals, cls>>

\* lines 375-390: /train reads its arguments and the labelled rows
TrainEntry(t, r) ==
    /\ req[t].pc = "idle"
    /\ r.handler = "train"
    /\ req' = [req EXCEPT ![t] =
                [Idle EXCEPT
                   !.pc = "rows",
                   !.handler = r.handler,
                   !.args = r.args,
                   !.response_df = r.response_df,
                   !.feature_weight_dict =
                       update_parameter_dictionary(r.args, PARSER_FEATURE_DICT),
                   !.parser_params = update_parameter_dictionary(r.args, DEFAULTS)]]
    /\ UNCHANGED <<globals, cls>>

\* lines 394-399: validate_response applied to the next row
TrainRow(t) ==
    /\ req[t].pc = "rows"
    /\ Len(req[t].output_df) < Len(req[t].response_df)
    /\ LET x == req[t].response_df[Len(req[t].output_df) + 1]
       IN  req' = [req EXCEPT
                ![t].output_df =
                    Append(@, validate_response(x.free_response, x.uid,
                                                req[t].feature_weight_dict,
                                                req[t].parser_params))]
    /\ UNCHANGED <<globals, cls>>

\* line 382
features_to_consider(train_feature_dict) ==
    {k \in DOMAIN train_feature_dict : Truthy(train_feature_dict[k])}

\* the coefficients a fit may return (sklearn is not modelled; saga is seeded
\* at random, so any of them may come back)
CoefVals == {PyFloat(-10), PyFloat(10)}

\* lines 411-418: the fitted coefficients go into the reply only
FeatureDictAfterFitStoresCoef(coef) ==
    [k \in DOMAIN PARSER_FEATURE_DICT |->
        IF k \in DOMAIN coef THEN coef[k] ELSE PARSER_FEATURE_DICT[k]]

FeatureDictAfterFit(coef) == PARSER_FEATURE_DICT

\* lines 386, 400-422.  A cv argument arrives as a string, and line 409
\* compares it with 1; a single-class label column or an empty feature list
\* makes cross_val_score and lr.fit raise.
TrainFit(t) ==
    /\ req[t].pc = "rows"
    /\ Len(req[t].output_df) = Len(req[t].response_df)
    /\ LET y == {req[t].response_df[i].valid_label : i \in 1..Len(req[t].response_df)}
           feats == features_to_consider(req[t].feature_weight_dict)
           cv_input == ArgsGet(req[t].args, "cv", PyInt(5))
       IN  IF cv_input.t = "str"
           THEN /\ req' = [req EXCEPT ![t].result = [error |-> "TypeError"],
                                      ![t].pc = "done"]
                /\ UNCHANGED globals
           ELSE IF Cardinality(y) < 2 \/ feats = {}
           THEN /\ req' = [req EXCEPT ![t].result = [error |-> "ValueError"],
                                      ![t].pc = "done"]
                /\ UNCHANGED globals
           ELSE \E coef \in [feats -> CoefVals] :
                  /\ req' = [req EXCEPT
                               ![t].result = [coef |-> coef,
                                              output_df |-> req[t].output_df,
                                              cross_val_computed |-> cv_input.v > 1],
                               ![t].pc = "done"]
                  /\ PARSER_FEATURE_DICT' = FeatureDictAfterFit(coef)
                  /\ UNCHANGED <<DEFAULTS, PARSER_FEATURE_INTERCEPT, df_questions,
                                 df_innovation, df_domain, bad_vocab, common_vocab>>
    /\ UNCHANGED cls

\* line 314, 367, 422: return jsonify(...)
Reply(t) ==
    /\ req[t].pc = "done"
    /\ req' = [req EXCEPT ![t] = Idle]
    /\ UNCHANGED <<globals, cls>>

-----------------------------------------------------------------------------
(* The requests *)

MaxLen == 2

RECURSIVE SeqsUpTo(_, _)
SeqsUpTo(S, n) ==
    IF n = 0 THEN {<<>>}
    ELSE LET shorter == SeqsUpTo(S, n - 1)
         IN  shorter \cup {Append(q, x) : q \in shorter, x \in S}

\* a domain word, a bad word, a misspelling, a digit, an operator
RawChars == {"d", "b", "x", "2", "+"}
Responses == SeqsUpTo(RawChars, MaxLen) \cup {<<"2", "+", "2", "=", "4">>}

\* no uid; both variants of question a; its qid alone and with an unknown
\* variant; an unknown question
Uids ==
    {None, PyStr(<<"a", "@", "1">>), PyStr(<<"a", "@", "2">>), PyStr(<<"a">>),
     PyStr(<<"a", "@", "9">>), PyStr(<<"c", "@", "1">>)}

ArgKeys == KeySet \cup ParamSet \cup {"cv"}
NoArgs == [k \in ArgKeys |-> None]
\* the arguments of a request that carries exactly those of f
WithArgs(f) == [k \in ArgKeys |-> IF k \in DOMAIN f THEN PyStr(f[k]) ELSE None]

TriArgs == {None, PyStr("true"), PyStr("false")}
ParamArgs ==
    {[tag_numeric |-> tn, spelling_correction |-> sc, spell_correction_max |-> mx] :
        tn \in TriArgs, sc \in TriArgs, mx \in {None, PyStr("0")}}

WeightArgs ==
    {<<>>,
     [domain_word_count |-> "0"],
     [bad_word_count |-> "1"],
     [stem_word_count |-> "1", option_word_count |-> "1", common_word_count |-> "0"],
     [innovation_word_count |-> "0", domain_word_count |-> "0", bad_word_count |-> "0",
      common_word_count |-> "0"]}

\* f overridden by g where g has a value
Over(f, g) == [k \in DOMAIN f |-> IF k \in DOMAIN g /\ g[k].t # "none" THEN g[k] ELSE f[k]]

ScoreRequest(h, r, u, a) ==
    [handler |-> h, response |-> r, uid |-> u, args |-> a, response_df |-> <<>>]
TrainRequest(a, df) ==
    [handler |-> "train", response |-> <<>>, uid |-> None, args |-> a, response_df |-> df]

Row(r, u, label) == [free_response |-> r, uid |-> u, valid_label |-> label]
TrainSets ==
    {<< Row(<<"b", "x">>, None, FALSE), Row(<<"d">>, PyStr(<<"a", "@", "1">>), TRUE) >>,
     << Row(<<"d", "2">>, PyStr(<<"a">>), TRUE), Row(<<"x">>, None, TRUE) >>}

TrainArgs ==
    {NoArgs, WithArgs([bad_word_count |-> "1"]), WithArgs([cv |-> "3"]),
     WithArgs([spelling_correction |-> "false"]),
     WithArgs([spelling_correction |-> "false", bad_word_count |-> "1"]),
     WithArgs([innovation_word_count |-> "0", domain_word_count |-> "0",
               bad_word_count |-> "0", common_word_count |-> "0"])}

\* every request of one worker
Requests ==
    {ScoreRequest(h, r, u, Over(WithArgs(wa), pa)) :
        h \in {"validate", "validate_new"}, r \in Responses, u \in Uids,
        pa \in ParamArgs, wa \in WeightArgs}
    \cup {TrainRequest(a, df) : a \in TrainArgs, df \in TrainSets}

\* the requests of two concurrent workers
ConcRequests ==
    {ScoreRequest(h, r, u, a) :
        h \in {"validate", "validate_new"},
        r \in {<<"b", "x">>, <<"2", "+">>, <<"t", "d">>},
        u \in {None, PyStr(<<"a", "@", "1">>)},
        a \in {NoArgs, WithArgs([bad_word_count |-> "1"]),
               WithArgs([remove_nonwords |-> "false", remove_stopwords |-> "f"])}}
    \cup {TrainRequest(a, df) : a \in TrainArgs, df \in TrainSets}

\* no parse_and_classify loop is being traced
ClsIdle ==
    [pc |-> "off", response_words |-> <<>>, feature_weight_dict |-> InitFeatureDict,
     feature_vocab_dict |-> ZeroCounts, i |-> 1, counts |-> ZeroCounts,
     inner_product |-> 0, valid |-> FALSE]


Init ==
    /\ InitGlobals
    /\ cls = ClsIdle
    /\ req = [t \in Threads |-> Idle]

\* a worker takes one of the requests R
Take(t, R) ==
    /\ req[t].pc = "idle"
    /\ \E r \in R : Entry(t, r) \/ TrainEntry(t, r)

\* a worker goes on with the request it has
Step(t) ==
    \/ FirstPass(t)
    \/ SecondPass(t)
    \/ Finish(t)
    \/ FinishNew(t)
    \/ TrainRow(t)
    \/ TrainFit(t)
    \/ Reply(t)

Next == Take(1, Requests) \/ Step(1)

Spec == Init /\ [][Next]_vars

NextConc == \E t \in Threads : Take(t, ConcRequests) \/ Step(t)

SpecConc == Init /\ [][NextConc]_vars

-----------------------------------------------------------------------------
(* Claims about validate_response and the handlers *)

Scoring(t) == req[t].handler \in {"validate", "validate_new"}
Auto(t) == req[t].parser_params.spelling_correction.t = "str"
Same(a, b) == a.t = b.t /\ a.v = b.v
Last(q) == q[Len(q)]
\* the fields parse_and_classify computes, as the reply carries them
ScoringFields(rd) ==
    <<rd.counts, rd.inner_product, rd.num_spelling_correction, rd.processed_response,
      rd.spelling_correction_used>>

\* a reference names a question by its qid when it is the qid, or the qid
\* followed by "@" and a variant
NamesQid(ref, qid) ==
    \/ ref = qid
    \/ /\ Len(ref) > Len(qid)
       /\ SubSeq(ref, 1, Len(qid)) = qid
       /\ ref[Len(qid) + 1] = "@"
       /\ \A i \in 1..Len(qid) : qid[i] # "@"
Unknown(uid) ==
    \/ uid.t = "none"
    \/ \A i \in 1..Len(df_questions) :
         df_questions[i].uid # uid.v /\ ~NamesQid(uid.v, df_questions[i].qid)

\* C4: with spelling_correction "auto", once the first pass (correction off)
\* has scored valid no second pass runs, and the reply carries the first
\* pass's counts, inner_product, num_spelling_correction and processed text.
C4_ValidFirstPassIsFinal ==
    \A t \in Threads :
      (Scoring(t) /\ Auto(t) /\ Len(req[t].calls) >= 1 /\ req[t].calls[1].result.valid) =>
        /\ req[t].pc # "second"
        /\ Len(req[t].calls) = 1
        /\ Same(req[t].calls[1].correct_spelling, PyBool(FALSE))
        /\ req[t].pc = "done" =>
             /\ ScoringFields(req[t].result) = ScoringFields(req[t].calls[1].result)
             /\ req[t].result.num_spelling_correction = 0
             /\ req[t].handler = "validate" => req[t].result.valid

C4_Witness ==
    /\ req[1].pc = "done"
    /\ Scoring(1) /\ Auto(1)
    /\ req[1].calls[1].result.valid
    /\ \E i \in 1..Len(req[1].response) : req[1].response[i] \in Misspelled
    /\ Truthy(req[1].parser_params.spell_correction_max)

\* C5: with "auto" and an invalid first pass, exactly two passes have run when
\* the reply is made, the first with correction off, then one with it on, and
\* every scoring field of the reply is the second pass's; with a boolean
\* spelling_correction exactly one pass runs, with that setting.
C5_RetryReplacesFirstPass ==
    \A t \in Threads :
      (Scoring(t) /\ req[t].pc = "done") =>
        /\ (Auto(t) /\ ~req[t].calls[1].result.valid) =>
             /\ Len(req[t].calls) = 2
             /\ Same(req[t].calls[1].correct_spelling, PyBool(FALSE))
             /\ Same(req[t].calls[2].correct_spelling, PyBool(TRUE))
             /\ ScoringFields(req[t].result) = ScoringFields(req[t].calls[2].result)
             /\ Same(req[t].result.spelling_correction_used, PyBool(TRUE))
             /\ req[t].handler = "validate" =>
                  req[t].result.valid = req[t].calls[2].result.valid
        /\ ~Auto(t) =>
             /\ Len(req[t].calls) = 1
             /\ Same(req[t].calls[1].correct_spelling,
                     req[t].parser_params.spelling_correction)
             /\ ScoringFields(req[t].result) = ScoringFields(req[t].calls[1].result)

C5_Witness ==
    /\ req[1].pc = "done"
    /\ req[1].handler = "validate" /\ Auto(1)
    /\ Len(req[1].calls) = 2
    /\ ~req[1].calls[1].result.valid
    /\ req[1].result.valid
    /\ req[1].result.num_spelling_correction > 0
    /\ req[1].calls[1].result.counts # req[1].result.counts

\* C6: the tag_numeric handed to the normalizer is the caller's boolean, or,
\* for "auto", the question's contains_number flag (false when the question is
\* unknown); the reply records the caller's value as tag_numeric_input.
C6_TagNumericResolved ==
    \A t \in Threads :
      (Scoring(t) /\ req[t].pc # "idle") =>
        LET given == make_tristate(ArgsGet(req[t].args, "tag_numeric", DEFAULTS.tag_numeric),
                                   DEFAULTS.tag_numeric)
            expected == IF given.t = "bool" THEN given
                        ELSE PyBool(Truthy(req[t].has_numeric))
        IN  /\ \A i \in 1..Len(req[t].calls) : Same(req[t].calls[i].tag_numeric, expected)
            /\ req[t].pc = "done" => Same(req[t].result.tag_numeric_input, given)

\* the part of C6 the code does keep: a boolean goes through unchanged and the
\* caller's value is recorded
C6_BooleanPassedThrough ==
    \A t \in Threads :
      (Scoring(t) /\ req[t].pc # "idle") =>
        /\ req[t].tag_numeric_input.t = "bool" =>
             \A i \in 1..Len(req[t].calls) :
               Same(req[t].calls[i].tag_numeric, req[t].tag_numeric_input)
        /\ req[t].pc = "done" =>
             Same(req[t].result.tag_numeric_input, req[t].tag_numeric_input)

\* C7: /validate_new replies valid = linear valid OR (the question contains
\* numbers AND the raw response has a digit or one of + - * = /); so the
\* override never turns a valid result invalid and never fires for an unknown
\* or non-numeric question.
C7_MathOverrideIsOr ==
    \A t \in Threads :
      (req[t].handler = "validate_new" /\ req[t].pc = "done") =>
        LET linear == Last(req[t].calls).result.valid
            numeric == /\ req[t].result.uid_used.t = "str"
                       /\ \E i \in 1..Len(df_questions) :
                            /\ df_questions[i].uid = req[t].result.uid_used.v
                            /\ df_questions[i].contains_number
            math == \E i \in 1..Len(req[t].response) :
                      req[t].response[i] \in
                        {"+", "-", "*", "=", "/", "0", "1", "2", "3", "4", "5", "6", "7",
                         "8", "9"}
        IN  /\ req[t].result.valid = (linear \/ (numeric /\ math))
            /\ linear => req[t].result.valid
            /\ (Unknown(req[t].uid) \/ ~numeric) => req[t].result.valid = linear

C7_Witness ==
    /\ req[1].pc = "done"
    /\ req[1].handler = "validate_new"
    /\ Truthy(req[1].has_numeric)
    /\ Last(req[1].calls).result.inner_product < 0
    /\ req[1].result.valid

\* C8: an absent question reference, or one matching no uid and no qid, gives
\* empty stem/option/innovation/domain vocabularies with the global bad and
\* common sets, no resolved uid, no numeric flag, and a reply with uid_used
\* None and uid_found False; a reference equal to a known uid resolves to
\* that very uid.
C8_UnknownAndExactUid ==
    \A t \in Threads :
      (Scoring(t) /\ req[t].pc # "idle") =>
        /\ Unknown(req[t].uid) =>
             /\ \A key \in {"stem_word_count", "option_word_count",
                            "innovation_word_count", "domain_word_count"} :
                  req[t].vocab_dict[key] = {}
             /\ req[t].vocab_dict["bad_word_count"] = bad_vocab
             /\ req[t].vocab_dict["common_word_count"] = common_vocab
             /\ req[t].uid_used.t = "none"
             /\ req[t].has_numeric.t = "none"
             /\ req[t].pc = "done" =>
                  req[t].result.uid_used.t = "none" /\ ~req[t].result.uid_found
        /\ (/\ req[t].uid.t = "str"
            /\ \E i \in 1..Len(df_questions) : df_questions[i].uid = req[t].uid.v) =>
             /\ Same(req[t].uid_used, req[t].uid)
             /\ req[t].pc = "done" => req[t].result.uid_found

C8_Witness ==
    /\ req[1].pc = "done"
    /\ Scoring(1)
    /\ req[1].uid.t = "str"
    /\ Unknown(req[1].uid)
    /\ ~req[1].result.uid_found
    /\ Len(req[1].response) > 0

-----------------------------------------------------------------------------
(* Claims about calibration and about concurrent requests *)

TrainDone(t) ==
    /\ req[t].handler = "train"
    /\ req[t].pc = "done"
    /\ "output_df" \in DOMAIN req[t].result
CountsOf(t) == [i \in 1..Len(req[t].result.output_df) |-> req[t].result.output_df[i].counts]
SameMask(t1, t2) ==
    features_to_consider(req[t1].feature_weight_dict)
      = features_to_consider(req[t2].feature_weight_dict)

\* C9: two calibration runs over the same rows and parser options whose
\* weight masks select the same categories produce the same count vector for
\* every row, whatever the non-zero weight values, "auto" included.
C9_CountsIndependentOfWeightValues ==
    \A t1, t2 \in Threads :
      (/\ TrainDone(t1) /\ TrainDone(t2)
       /\ req[t1].response_df = req[t2].response_df
       /\ req[t1].parser_params = req[t2].parser_params
       /\ SameMask(t1, t2))
      => CountsOf(t1) = CountsOf(t2)

\* what remains of C9 when spelling_correction is a boolean
C9_CountsIndependentUnlessAuto ==
    \A t1, t2 \in Threads :
      (/\ TrainDone(t1) /\ TrainDone(t2)
       /\ req[t1].response_df = req[t2].response_df
       /\ req[t1].parser_params = req[t2].parser_params
       /\ req[t1].parser_params.spelling_correction.t = "bool"
       /\ SameMask(t1, t2))
      => CountsOf(t1) = CountsOf(t2)

\* the reply a request gets when no other request runs: its handler applied
\* in one piece to the state the process was started with
ReplyAlone(t) ==
    LET weights == update_parameter_dictionary(req[t].args, InitFeatureDict)
        params == update_parameter_dictionary(req[t].args, InitDefaults)
        rd == validate_response(req[t].response, req[t].uid, weights, params)
    IN  CASE req[t].handler = "validate" -> rd
          [] req[t].handler = "validate_new" ->
               [rd EXCEPT !.valid =
                  rd.valid \/ (/\ Truthy(get_question_data(req[t].uid).has_numeric)
                               /\ resp_has_math(req[t].response))]
          [] req[t].handler = "train" ->
               [i \in 1..Len(req[t].response_df) |->
                  validate_response(req[t].response_df[i].free_response,
                                    req[t].response_df[i].uid, weights, params)]

\* C10: no request changes the process-wide state (default weights,
\* intercept, parser defaults, vocabularies, question tables), and every
\* reply is the one the request would get run alone, whatever ran before it
\* or runs beside it.
C10_NoSharedStateMutation ==
    /\ InitGlobals
    /\ \A t \in Threads :
         req[t].pc = "done" =>
           IF req[t].handler = "train"
           THEN "output_df" \in DOMAIN req[t].result =>
                  req[t].result.output_df = ReplyAlone(t)
           ELSE req[t].result = ReplyAlone(t)

C10_Witness ==
    /\ TrainDone(2)
    /\ req[1].pc = "done"
    /\ req[1].handler = "validate"
    /\ \A key \in KeySet : req[1].args[key].t = "none"
    /\ Len(req[1].calls) = 2

-----------------------------------------------------------------------------
(* The scoring loop of parse_and_classify, one word per step, on every word *)
(* list, weight mapping and vocabulary the bounds allow.                    *)

MaxWords == 2

\* two words that lie in several vocabularies and one that lies in none
Tokens == {"d", "b", "z"}
WeightVals == {PyInt(-3), PyInt(0), PyFloat(30)}
ClsUids == {None, PyStr(<<"a", "@", "1">>), PyStr(<<"a", "@", "2">>), PyStr(<<"b">>)}

InitClassify ==
    /\ InitGlobals
    /\ req = [t \in Threads |-> Idle]
    /\ \E words \in SeqsUpTo(Tokens, MaxWords), w \in [KeySet -> WeightVals],
          u \in ClsUids :
         cls = [pc |-> "loop", response_words |-> words, feature_weight_dict |-> w,
                feature_vocab_dict |-> get_question_data(u).vocab_dict, i |-> 1,
                counts |-> ZeroCounts, inner_product |-> 0, valid |-> FALSE]

\* lines 164-169: the next word of response_words
ClassifyWord ==
    /\ cls.pc = "loop"
    /\ cls.i <= Len(cls.response_words)
    /\ cls' = [cls EXCEPT
                 !.counts = CountWord(cls.counts, cls.response_words[cls.i],
                                      cls.feature_weight_dict, cls.feature_vocab_dict),
                 !.i = cls.i + 1]
    /\ UNCHANGED <<globals, req>>

\* lines 172-176: the loop is over
ClassifyScore ==
    /\ cls.pc = "loop"
    /\ cls.i > Len(cls.response_words)
    /\ cls' = [cls EXCEPT
                 !.pc = "done",
                 !.inner_product = InnerProduct(cls.counts, cls.feature_weight_dict),
                 !.valid = IsValid(InnerProduct(cls.counts, cls.feature_weight_dict))]
    /\ UNCHANGED <<globals, req>>

NextClassify == ClassifyWord \/ ClassifyScore

SpecClassify == InitClassify /\ [][NextClassify]_vars

\* what the claims speak of
NonZero(key) == Tenths(cls.feature_weight_dict[key]) # 0
Eligible(word, key) == NonZero(key) /\ word \in cls.feature_vocab_dict[key]
KeyPos(key) == CHOOSE k \in 1..Len(Keys) : Keys[k] = key
FirstEligible(word, key) ==
    /\ Eligible(word, key)
    /\ \A k \in 1..(KeyPos(key) - 1) : ~Eligible(word, Keys[k])
Processed == 1..(cls.i - 1)
RECURSIVE SumOver(_, _)
SumOver(f, S) ==
    IF S = {} THEN 0 ELSE LET x == CHOOSE x \in S : TRUE IN f[x] + SumOver(f, S \ {x})
TotalCount == SumOver(cls.counts, KeySet)

\* C1: each word read so far has incremented at most one category count, the
\* first category in declared order with a non-zero weight whose vocabulary
\* holds the word; so the counts sum to no more than the number of words read.
C1_FirstMatchWins ==
    cls.pc # "off" =>
      /\ \A key \in KeySet :
           cls.counts[key] =
             Cardinality({j \in Processed : FirstEligible(cls.response_words[j], key)})
      /\ TotalCount <= Len(cls.response_words)

C1_Witness ==
    /\ cls.pc = "done"
    /\ \E j \in Processed, k1, k2 \in KeySet :
         /\ k1 # k2
         /\ Eligible(cls.response_words[j], k1)
         /\ Eligible(cls.response_words[j], k2)
    /\ TotalCount = Len(cls.response_words)
    /\ Len(cls.response_words) = MaxWords

\* C2: a category whose weight is zero never counts a word, even a word of its
\* vocabulary; the words counted are exactly those that some non-zero-weight
\* category holds, each once (by the next such category in declared order).
C2_ZeroWeightSkipped ==
    cls.pc # "off" =>
      /\ \A key \in KeySet : ~NonZero(key) => cls.counts[key] = 0
      /\ TotalCount =
           Cardinality({j \in Processed :
                          \E key \in KeySet : Eligible(cls.response_words[j], key)})
      /\ \A j \in Processed, z \in KeySet :
           (/\ ~NonZero(z)
            /\ cls.response_words[j] \in cls.feature_vocab_dict[z]
            /\ FirstEligible(cls.response_words[j], z) = FALSE
            /\ \E key \in KeySet : FirstEligible(cls.response_words[j], key))
           => \E key \in KeySet :
                FirstEligible(cls.response_words[j], key) /\ cls.counts[key] > 0

C2_Witness ==
    /\ cls.pc = "done"
    /\ \E j \in Processed, z, key \in KeySet :
         /\ ~NonZero(z)
         /\ cls.response_words[j] \in cls.feature_vocab_dict[z]
         /\ KeyPos(z) < KeyPos(key)
         /\ FirstEligible(cls.response_words[j], key)
         /\ cls.counts[key] > 0
         /\ cls.counts[z] = 0
    /\ \E j \in Processed :
         /\ cls.response_words[j] \in cls.feature_vocab_dict["stem_word_count"]
         /\ \A key \in KeySet : ~Eligible(cls.response_words[j], key)

\* C3: the score is the sum of count * weight plus the intercept, valid is
\* exactly score > 0, and with every weight zero the score is the intercept.
C3_InnerProductAndValid ==
    cls.pc = "done" =>
      /\ cls.inner_product =
           SumOver([key \in KeySet |->
                      cls.counts[key] * Tenths(cls.feature_weight_dict[key])], KeySet)
           + 10 * PARSER_FEATURE_INTERCEPT
      /\ cls.valid = (cls.inner_product > 0)
      /\ (\A key \in KeySet : ~NonZero(key)) =>
           /\ cls.inner_product = 10 * PARSER_FEATURE_INTERCEPT
           /\ cls.valid = (PARSER_FEATURE_INTERCEPT > 0)

C3_Witness ==
    /\ cls.pc = "done"
    /\ cls.inner_product = 0
    /\ ~cls.valid
    /\ \E key \in KeySet : cls.counts[key] > 0

====
